---- MODULE Spec2Model ----
(***************************************************************************)
(* WhatsApp Bubble widget: the minimal script (src/src/index.ts) and the    *)
(* SDK-class variant (src/unnamed/part_001).                               *)
(*                                                                         *)
(* JavaScript strings are modelled as sequences of one-character strings,  *)
(* so that concatenation, the phone regular expression, the user-agent     *)
(* regular expression and encodeURIComponent are computed character by     *)
(* character.  An optional JSON field or attribute is a record             *)
(* [has, v]: has = FALSE stands for undefined / null.                      *)
(*                                                                         *)
(* Input domain: configuration fields have the types of the WhatsAppConfig *)
(* interface (strings, numbers, booleans, each possibly absent) and the    *)
(* authorization response has the shape of the documented endpoint         *)
(* ({authorized: boolean, config?: object}).  Strings are well-formed      *)
(* UTF-16 (encodeURIComponent raises URIError only on a lone surrogate).   *)
(***************************************************************************)
EXTENDS Integers, Sequences, FiniteSets, TLC

VARIABLES
  script,       \* the data-* attributes of the script element
  pc,           \* "load", "terminated", "authorizing", "settled"
  requests,     \* the fetch calls issued so far, each with its status
  response,     \* the parsed body of the authorization response, once received
  console,      \* the console entries, in order
  widget,       \* the constants of the initWidget closure the handlers use
  bubble,       \* the element made by document.createElement('div')
  body,         \* the children appended to document.body
  created,      \* number of document.createElement calls
  opened,       \* the window.open calls, in order
  userAgent,    \* navigator.userAgent
  isMobile,     \* the isMobile constant of the last run of handleClick
  lastEvent,    \* the last click or keydown event dispatched on the bubble
  activations,  \* number of click, Enter and Space events dispatched so far
  lastHover,    \* the last mouseenter or mouseleave event dispatched on the bubble
  sdk           \* the page of the SDK-class variant (src/unnamed/part_001)

vars == <<script, pc, requests, response, console, widget, bubble, body,
          created, opened, userAgent, isMobile, lastEvent, activations,
          lastHover, sdk>>

\* ------------------------------------------------------------------------
\* Bounds of the model
\* ------------------------------------------------------------------------

\* activations (click / Enter / Space) explored per page load
MaxActivations == 2

\* ------------------------------------------------------------------------
\* Optional values
\* ------------------------------------------------------------------------

Some(x) == [has |-> TRUE, v |-> x]

\* undefined / null where a string (sequence of characters) is expected
NoStr == [has |-> FALSE, v |-> <<>>]

\* undefined where a short text (position name, colour, tooltip) is expected
NoName == [has |-> FALSE, v |-> ""]

\* undefined where a number is expected
NoNum == [has |-> FALSE, v |-> 0]

\* undefined where a boolean is expected
NoBool == [has |-> FALSE, v |-> FALSE]

\* JavaScript truthiness of an optional string: undefined and "" are falsy
TruthyStr(x) == x.has /\ x.v # <<>>

\* JavaScript truthiness of an optional short text
TruthyName(x) == x.has /\ x.v # ""

\* JavaScript truthiness of an optional number: undefined and 0 are falsy
TruthyNum(x) == x.has /\ x.v # 0

\* x !== false
NotFalse(x) == ~(x.has /\ x.v = FALSE)

\* ------------------------------------------------------------------------
\* String literals of the script
\* ------------------------------------------------------------------------

AuthorizePath == <<"/","a","p","i","/","w","i","d","g","e","t","/","a","u","t","h","o","r","i","z","e","?","w","e","b","s","i","t","e","_","i","d","=">>

AppIdParam == <<"&","a","p","p","_","i","d","=">>

AnalyticsPath == <<"/","a","p","i","/","w","i","d","g","e","t","/","a","n","a","l","y","t","i","c","s">>

MobileUrlPrefix == <<"w","h","a","t","s","a","p","p",":","/","/","s","e","n","d","?","p","h","o","n","e","=">>

DesktopUrlPrefix == <<"h","t","t","p","s",":","/","/","w","e","b",".","w","h","a","t","s","a","p","p",".","c","o","m","/","s","e","n","d","?","p","h","o","n","e","=">>

TextParam == <<"&","t","e","x","t","=">>

\* ------------------------------------------------------------------------
\* Characters
\* ------------------------------------------------------------------------

UpperCase == <<"A","B","C","D","E","F","G","H","I","J","K","L","M","N","O","P","Q","R","S","T","U","V","W","X","Y","Z">>

LowerCase == <<"a","b","c","d","e","f","g","h","i","j","k","l","m","n","o","p","q","r","s","t","u","v","w","x","y","z">>

DigitChars == {"0","1","2","3","4","5","6","7","8","9"}

Range(s) == {s[i] : i \in DOMAIN s}

\* ------------------------------------------------------------------------
\* /^[0-9]{10,15}$/.test(phoneNumber)     (index.ts:43)
\* ------------------------------------------------------------------------

MinPhoneDigits == 10

MaxPhoneDigits == 15

\* the greedy quantifier: how many characters from the start of s match
\* [0-9], taking at most max of them
RECURSIVE LeadingDigits(_, _)
LeadingDigits(s, max) ==
  IF s = <<>> \/ max = 0 THEN 0
  ELSE IF Head(s) \in DigitChars THEN 1 + LeadingDigits(Tail(s), max - 1)
  ELSE 0

\* mutation: the upper repetition bound is not enforced ({10,})
PhoneRegexTest_NoUpper(s) ==
  LET n == LeadingDigits(s, Len(s)) IN n >= MinPhoneDigits /\ n = Len(s)

\* mutation: the $ anchor is dropped
PhoneRegexTest_NoEnd(s) ==
  LeadingDigits(s, MaxPhoneDigits) >= MinPhoneDigits

\* ^ anchors at index 0, [0-9]{10,15} consumes n digits, $ needs the end of
\* the input right after them
PhoneRegexTest(s) ==
  LET n == LeadingDigits(s, MaxPhoneDigits)
  IN  n >= MinPhoneDigits /\ n = Len(s)

\* ------------------------------------------------------------------------
\* /Android|webOS|iPhone|iPad|iPod|BlackBerry|IEMobile|Opera Mini/i
\*   .test(navigator.userAgent)           (index.ts:109)
\* ------------------------------------------------------------------------

MobileTokens == <<
  <<"A","n","d","r","o","i","d">>,
  <<"w","e","b","O","S">>,
  <<"i","P","h","o","n","e">>,
  <<"i","P","a","d">>,
  <<"i","P","o","d">>,
  <<"B","l","a","c","k","B","e","r","r","y">>,
  <<"I","E","M","o","b","i","l","e">>,
  <<"O","p","e","r","a"," ","M","i","n","i">> >>

\* toUpperCase on the lower-case letters
ToUpperCase ==
  [c \in Range(LowerCase) |->
     UpperCase[CHOOSE i \in DOMAIN LowerCase : LowerCase[i] = c]]

\* Canonicalize of the i flag: a character is compared by its upper case
Canonicalize(c) == IF c \in DOMAIN ToUpperCase THEN ToUpperCase[c] ELSE c

\* the alternative t matches the input s at index i
MatchesAt(s, i, t) ==
  /\ i + Len(t) - 1 <= Len(s)
  /\ \A j \in 1..Len(t) : Canonicalize(s[i + j - 1]) = Canonicalize(t[j])

\* mutation: the i flag is dropped
MobileRegexTest_CaseSensitive(ua) ==
  \E i \in 1..Len(ua) : \E k \in DOMAIN MobileTokens :
     /\ i + Len(MobileTokens[k]) - 1 <= Len(ua)
     /\ SubSeq(ua, i, i + Len(MobileTokens[k]) - 1) = MobileTokens[k]

\* unanchored test: some alternative matches at some index
MobileRegexTest(ua) ==
  \E i \in 1..Len(ua) : \E k \in DOMAIN MobileTokens :
     MatchesAt(ua, i, MobileTokens[k])

\* ------------------------------------------------------------------------
\* encodeURIComponent(defaultMessage)     (index.ts:108)
\* ------------------------------------------------------------------------

HexDigits == <<"0","1","2","3","4","5","6","7","8","9","A","B","C","D","E","F">>

\* characters encodeURIComponent leaves alone: A-Z a-z 0-9 - _ . ! ~ * ' ( )
UriUnreserved ==
  Range(UpperCase) \cup Range(LowerCase) \cup DigitChars
    \cup {"-","_",".","!","~","*","'","(",")"}

\* code points of the other characters that occur in the modelled messages
\* ("\\u00E9" names the one-character string U+00E9)
CodePoint ==
  [c \in {" ","#","%","&","+","/","=","?","\\u00E9"} |->
     CASE c = " " -> 32  [] c = "#" -> 35  [] c = "%" -> 37  [] c = "&" -> 38
       [] c = "+" -> 43  [] c = "/" -> 47  [] c = "=" -> 61  [] c = "?" -> 63
       [] c = "\\u00E9" -> 233]

\* the UTF-8 octets of a code point below U+0800
Utf8(cp) ==
  IF cp < 128 THEN <<cp>>
  ELSE <<192 + (cp \div 64), 128 + (cp % 64)>>

\* %XX of one octet
PercentOctet(b) == <<"%", HexDigits[(b \div 16) + 1], HexDigits[(b % 16) + 1]>>

RECURSIVE PercentOctets(_)
PercentOctets(bs) ==
  IF bs = <<>> THEN <<>>
  ELSE PercentOctet(Head(bs)) \o PercentOctets(Tail(bs))

RECURSIVE encodeURIComponent(_)
encodeURIComponent(s) ==
  IF s = <<>> THEN <<>>
  ELSE (IF Head(s) \in UriUnreserved THEN <<Head(s)>>
        ELSE PercentOctets(Utf8(CodePoint[Head(s)])))
       \o encodeURIComponent(Tail(s))

\* ------------------------------------------------------------------------
\* Inputs: script attributes, authorization responses, user agents
\* ------------------------------------------------------------------------

\* getAttribute returns null, "" or the attribute's text
AttributeValues(text) == {NoStr, Some(<<>>), Some(text)}

Scripts ==
  [website_id      : AttributeValues(<<"w","1">>),
   app_id          : AttributeValues(<<"a","7">>),
   app_manager_url : AttributeValues(<<"h","t","t","p","s",":","/","/","m",".","i","o">>)]

Digits(n) == [i \in 1..n |-> HexDigits[(i % 10) + 1]]

ExamplePhone == <<"5","4","9","1","1","1","2","3","4","5","6","7","8">>

ExampleMessage == <<"H","e","l","l","o">>

\* phone_number values: absent, empty, around both ends of the 10-15 range,
\* and strings of an accepted length that are not all digits
Phones ==
  {NoStr, Some(<<>>),
   Some(Digits(MinPhoneDigits - 1)), Some(Digits(MinPhoneDigits)),
   Some(ExamplePhone),
   Some(Digits(MaxPhoneDigits)), Some(Digits(MaxPhoneDigits + 1)),
   Some(<<"+">> \o ExamplePhone),
   Some(ExamplePhone \o <<" ">>),
   Some(Digits(5) \o <<"-">> \o Digits(6)),
   Some(<<"p","h","o","n","e","n","u","m","b","e","r">>)}

Messages ==
  {NoStr, Some(<<>>), Some(ExampleMessage),
   Some(<<"H","i"," ","t","h","e","r","e","!">>),
   Some(<<"a","&","b","=","c">>),
   Some(<<"5","0","%"," ","o","f","f","?">>),
   Some(<<"c","a","f","\\u00E9">>)}

CornerNames == {"bottom-right", "bottom-left", "top-right", "top-left"}

Positions == {NoName} \cup {Some(n) : n \in CornerNames \cup {"center"}}

Booleans == {NoBool, Some(TRUE), Some(FALSE)}

\* data.config || {}  : the empty object has every field undefined
EmptyConfig ==
  [phone_number |-> NoStr, default_message |-> NoStr, position |-> NoName,
   enabled |-> NoBool, bubble_size |-> NoNum, offset_x |-> NoNum,
   offset_y |-> NoNum, bubble_color |-> NoName, show_tooltip |-> NoBool,
   tooltip_text |-> NoName]

\* configurations the authorization service may return: every phone with
\* every enabled flag, every message, positions, and style fields
Configs ==
  {[EmptyConfig EXCEPT !.phone_number = p, !.enabled = e] :
      p \in Phones, e \in {NoBool, Some(FALSE)}}
  \cup
  {[EmptyConfig EXCEPT !.phone_number = Some(ExamplePhone), !.enabled = e,
                       !.default_message = m] :
      e \in {NoBool, Some(FALSE)}, m \in Messages}
  \cup
  {[EmptyConfig EXCEPT !.phone_number = p, !.enabled = Some(TRUE),
                       !.default_message = Some(ExampleMessage),
                       !.position = q] :
      p \in {Some(ExamplePhone), Some(Digits(MaxPhoneDigits + 1))},
      q \in {Some("top-left"), Some("center")}}
  \cup
  {[EmptyConfig EXCEPT !.phone_number = Some(ExamplePhone), !.enabled = e,
                       !.bubble_size = Some(z), !.offset_x = Some(z \div 2),
                       !.offset_y = Some(35), !.bubble_color = Some("#FF0000"),
                       !.show_tooltip = Some(FALSE),
                       !.tooltip_text = Some("Chat now")] :
      e \in {NoBool, Some(FALSE)}, z \in {0, 48}}

\* bodies of the authorization response that parse as JSON
AuthorizationData ==
  [authorized : BOOLEAN, config : {[has |-> FALSE, v |-> EmptyConfig]}
                                   \cup {Some(c) : c \in Configs}]

AndroidUserAgent ==
  <<"L","i","n","u","x",";"," ","A","n","d","r","o","i","d"," ","1","4">>

DesktopUserAgent ==
  <<"W","i","n","d","o","w","s"," ","N","T"," ","1","0",".","0">>

\* navigator.userAgent values of the page-load model
UserAgents == {AndroidUserAgent, DesktopUserAgent}

\* keys of the keydown events dispatched on the bubble
Keys == {"Enter", " ", "Tab"}

\* ------------------------------------------------------------------------
\* State after the script element was inserted, before the script ran
\* ------------------------------------------------------------------------

NoWidget == [initialized |-> FALSE]

NoBubble == [exists |-> FALSE]

NoResponse == [has |-> FALSE]

NoEvent == [type |-> "none", key |-> "", defaultPrevented |-> FALSE]

\* the page of the SDK-class variant while the class is not instantiated:
\* this.bubble is null (0), the body has no child, nothing was logged
NoSdk ==
  [phase |-> "idle", config |-> EmptyConfig, bubble |-> 0, body |-> <<>>,
   created |-> 0, log |-> <<>>, error |-> "", updates |-> 0, stops |-> 0,
   tracked |-> <<>>, opened |-> <<>>, lastEvent |-> NoEvent,
   activations |-> 0]

Init ==
  /\ script \in Scripts
  /\ pc = "load"
  /\ requests = <<>>
  /\ response = NoResponse
  /\ console = <<>>
  /\ widget = NoWidget
  /\ bubble = NoBubble
  /\ body = <<>>
  /\ created = 0
  /\ opened = <<>>
  /\ userAgent \in UserAgents
  /\ isMobile = NoBool
  /\ lastEvent = NoEvent
  /\ activations = 0
  /\ lastHover = "none"
  /\ sdk = NoSdk

Entry(level, msg) == [level |-> level, msg |-> msg]

\* ------------------------------------------------------------------------
\* The bootstrap function                  (index.ts:5-32)
\* ------------------------------------------------------------------------

\* mutation: only the two identifiers are required
AttributesMissing_UrlOptional(s) ==
  ~TruthyStr(s.website_id) \/ ~TruthyStr(s.app_id)

\* !websiteId || !appId || !appManagerUrl
AttributesMissing(s) ==
  \/ ~TruthyStr(s.website_id)
  \/ ~TruthyStr(s.app_id)
  \/ ~TruthyStr(s.app_manager_url)

\* `${appManagerUrl}/api/widget/authorize?website_id=${websiteId}&app_id=${appId}`
AuthorizeUrl(s) ==
  s.app_manager_url.v \o AuthorizePath \o s.website_id.v
    \o AppIdParam \o s.app_id.v

AuthorizeRequest(s) ==
  [kind |-> "authorize", method |-> "GET", url |-> AuthorizeUrl(s),
   status |-> "pending"]

Bootstrap ==
  /\ pc = "load"
  /\ LET logged == console \o <<Entry("log", "Loading..."),
                                Entry("log", "Config:")>>
     IN  IF AttributesMissing(script)
         THEN /\ console' = Append(logged,
                               Entry("error", "Missing required attributes"))
              /\ pc' = "terminated"
              /\ UNCHANGED requests
         ELSE /\ console' = logged
              /\ requests' = Append(requests, AuthorizeRequest(script))
              /\ pc' = "authorizing"
  /\ UNCHANGED <<sdk, lastHover, script, response, widget, bubble, body, created, opened,
                 userAgent, isMobile, lastEvent, activations>>

\* ------------------------------------------------------------------------
\* initWidget(config, app)                 (index.ts:34-161)
\* ------------------------------------------------------------------------

DefaultPosition == "bottom-right"

DefaultBubbleSize == 60

DefaultOffset == 20

DefaultBubbleColor == "#25D366"

DefaultTooltipText == "Chat with us on WhatsApp"

RestShadow == "0 4px 12px rgba(0,0,0,0.15)"

HoverShadow == "0 6px 20px rgba(0,0,0,0.25)"

\* !phoneNumber
PhoneMissing(config) == ~TruthyStr(config.phone_number)

\* mutation: the enabled flag is not consulted
Enabled_Always(config) == TRUE

\* config.enabled !== false
Enabled(config) == NotFalse(config.enabled)

\* the constants of the closure, with their defaults   (index.ts:36-56)
Resolve(config) ==
  [initialized    |-> TRUE,
   phoneNumber    |-> config.phone_number.v,
   defaultMessage |-> IF TruthyStr(config.default_message)
                      THEN config.default_message.v ELSE <<>>,
   position       |-> IF TruthyName(config.position)
                      THEN config.position.v ELSE DefaultPosition,
   enabled        |-> Enabled(config),
   bubbleSize     |-> IF TruthyNum(config.bubble_size)
                      THEN config.bubble_size.v ELSE DefaultBubbleSize,
   offsetX        |-> IF TruthyNum(config.offset_x)
                      THEN config.offset_x.v ELSE DefaultOffset,
   offsetY        |-> IF TruthyNum(config.offset_y)
                      THEN config.offset_y.v ELSE DefaultOffset,
   bubbleColor    |-> IF TruthyName(config.bubble_color)
                      THEN config.bubble_color.v ELSE DefaultBubbleColor,
   showTooltip    |-> NotFalse(config.show_tooltip),
   tooltipText    |-> IF TruthyName(config.tooltip_text)
                      THEN config.tooltip_text.v ELSE DefaultTooltipText]

\* the positions table: the two sides each corner name declares
positions(offsetX, offsetY) ==
  [n \in CornerNames |->
     [side \in {IF n \in {"bottom-right", "bottom-left"}
                THEN "bottom" ELSE "top",
                IF n \in {"bottom-right", "top-right"}
                THEN "right" ELSE "left"} |->
        IF side \in {"top", "bottom"} THEN offsetY ELSE offsetX]]

\* bubble.style after the assignment to cssText.  For a position that is not
\* a key of the table the template holds the text "undefined" in front of the
\* width declaration: the CSS parser discards that malformed declaration up
\* to its semicolon, so neither a side nor the width is set.
StyleOf(w) ==
  LET known == w.position \in CornerNames
  IN  [position        |-> "fixed",
       sides           |-> IF known
                           THEN positions(w.offsetX, w.offsetY)[w.position]
                           ELSE <<>>,
       width           |-> IF known THEN Some(w.bubbleSize) ELSE NoNum,
       height          |-> Some(w.bubbleSize),
       backgroundColor |-> w.bubbleColor,
       borderRadius    |-> "50%",
       display         |-> "flex",
       alignItems      |-> "center",
       justifyContent  |-> "center",
       cursor          |-> "pointer",
       boxShadow       |-> RestShadow,
       zIndex          |-> "999999",
       transition      |-> "transform 0.3s ease, box-shadow 0.3s ease",
       transform       |-> ""]

\* mutation: the aria-label is not set
AttributesOf_TitleOnly(w) ==
  LET access == [a \in {"role", "tabindex"} |->
                   IF a = "role" THEN "button" ELSE "0"]
  IN  IF w.showTooltip
      THEN [a \in {"title"} |-> w.tooltipText] @@ access
      ELSE access

\* title / aria-label when showTooltip, then role and tabindex
AttributesOf(w) ==
  LET access == [a \in {"role", "tabindex"} |->
                   IF a = "role" THEN "button" ELSE "0"]
  IN  IF w.showTooltip
      THEN [a \in {"title", "aria-label"} |-> w.tooltipText] @@ access
      ELSE access

\* the element as it is when it is appended to the body
BubbleOf(w) ==
  [exists     |-> TRUE,
   tag        |-> "div",
   style      |-> StyleOf(w),
   innerHTML  |-> "svg",
   attributes |-> AttributesOf(w),
   listeners  |-> {"click", "keydown", "mouseenter", "mouseleave"}]

\* mutation: the disabled branch reports through console.error
initWidget_DisabledIsError(config) ==
  IF PhoneMissing(config)
  THEN [logs |-> <<Entry("error", "phone_number is required in configuration")>>,
        widget |-> NoWidget, bubble |-> NoBubble, appended |-> FALSE]
  ELSE IF ~PhoneRegexTest(config.phone_number.v)
  THEN [logs |-> <<Entry("error", "Invalid phone_number format. Must be 10-15 digits.")>>,
        widget |-> NoWidget, bubble |-> NoBubble, appended |-> FALSE]
  ELSE IF ~Enabled(config)
  THEN [logs |-> <<Entry("error", "Widget is disabled")>>,
        widget |-> NoWidget, bubble |-> NoBubble, appended |-> FALSE]
  ELSE [logs |-> <<Entry("log", "Widget initialized successfully")>>,
        widget |-> Resolve(config), bubble |-> BubbleOf(Resolve(config)),
        appended |-> TRUE]

\* what a run of initWidget leaves behind: the console entries it adds, the
\* closure, the element it created and whether it appended it
initWidget(config) ==
  IF PhoneMissing(config)
  THEN [logs |-> <<Entry("error", "phone_number is required in configuration")>>,
        widget |-> NoWidget, bubble |-> NoBubble, appended |-> FALSE]
  ELSE IF ~PhoneRegexTest(config.phone_number.v)
  THEN [logs |-> <<Entry("error", "Invalid phone_number format. Must be 10-15 digits.")>>,
        widget |-> NoWidget, bubble |-> NoBubble, appended |-> FALSE]
  ELSE IF ~Enabled(config)
  THEN [logs |-> <<Entry("log", "Widget is disabled")>>,
        widget |-> NoWidget, bubble |-> NoBubble, appended |-> FALSE]
  ELSE [logs |-> <<Entry("log", "Widget initialized successfully")>>,
        widget |-> Resolve(config), bubble |-> BubbleOf(Resolve(config)),
        appended |-> TRUE]

\* ------------------------------------------------------------------------
\* Settling of the authorize request       (index.ts:21-32)
\* ------------------------------------------------------------------------

\* mutation: the authorized field is not consulted
Authorized_Always(data) == TRUE

\* if (data.authorized)
Authorized(data) == data.authorized

\* mutation: a missing config falls back to a sample configuration
ConfigOf_SampleConfig(data) ==
  IF data.config.has THEN data.config.v
  ELSE [EmptyConfig EXCEPT !.phone_number = Some(ExamplePhone)]

\* data.config || {}
ConfigOf(data) == IF data.config.has THEN data.config.v ELSE EmptyConfig

\* mutation: the callback runs initWidget twice, so a second element is
\* created and appended
AuthorizeRespond_InitTwice(data) ==
  /\ pc = "authorizing"
  /\ requests' = [requests EXCEPT ![1].status = "resolved"]
  /\ response' = Some(data)
  /\ pc' = "settled"
  /\ IF Authorized(data)
     THEN LET r == initWidget(ConfigOf(data))
          IN  /\ console' = console
                     \o <<Entry("log", "Authorization data:")>> \o r.logs
                     \o r.logs
              /\ widget' = r.widget
              /\ bubble' = r.bubble
              /\ created' = IF r.bubble.exists THEN created + 2 ELSE created
              /\ body' = IF r.appended THEN body \o <<"bubble", "bubble">>
                         ELSE body
     ELSE /\ console' = console
                 \o <<Entry("log", "Authorization data:"),
                      Entry("error", "Not authorized:")>>
          /\ UNCHANGED <<widget, bubble, created, body>>
  /\ UNCHANGED <<sdk, lastHover, script, opened, userAgent, isMobile,
                 lastEvent, activations>>

\* the response arrived and its body parsed: the second then callback
AuthorizeRespond(data) ==
  /\ pc = "authorizing"
  /\ requests' = [requests EXCEPT ![1].status = "resolved"]
  /\ response' = Some(data)
  /\ pc' = "settled"
  /\ IF Authorized(data)
     THEN LET r == initWidget(ConfigOf(data))
          IN  /\ console' = console
                     \o <<Entry("log", "Authorization data:")>> \o r.logs
              /\ widget' = r.widget
              /\ bubble' = r.bubble
              /\ created' = IF r.bubble.exists THEN created + 1 ELSE created
              /\ body' = IF r.appended THEN Append(body, "bubble") ELSE body
     ELSE /\ console' = console
                 \o <<Entry("log", "Authorization data:"),
                      Entry("error", "Not authorized:")>>
          /\ UNCHANGED <<widget, bubble, created, body>>
  /\ UNCHANGED <<sdk, lastHover, script, opened, userAgent, isMobile, lastEvent, activations>>

\* mutation: a failed authorization is tried again
AuthorizeFail_Retry(cause) ==
  /\ pc = "authorizing"
  /\ Len(requests) < 3
  /\ requests' = Append([requests EXCEPT ![Len(requests)].status = "rejected"],
                        AuthorizeRequest(script))
  /\ console' = Append(console, Entry("error", "Authorization failed:"))
  /\ UNCHANGED <<sdk, lastHover, script, pc, response, widget, bubble, body, created, opened,
                 userAgent, isMobile, lastEvent, activations>>

\* the request rejected ("network"), or res.json() rejected ("parse"):
\* the catch callback
AuthorizeFail(cause) ==
  /\ pc = "authorizing"
  /\ requests' = [requests EXCEPT ![1].status =
                    IF cause = "network" THEN "rejected" ELSE "resolved"]
  /\ pc' = "settled"
  /\ console' = Append(console, Entry("error", "Authorization failed:"))
  /\ UNCHANGED <<sdk, lastHover, script, response, widget, bubble, body, created, opened,
                 userAgent, isMobile, lastEvent, activations>>

\* ------------------------------------------------------------------------
\* handleClick                             (index.ts:107-134)
\* ------------------------------------------------------------------------

\* mutation: the two schemes are swapped
DeepLink_Swapped(mobile, phoneNumber, message) ==
  (IF mobile THEN DesktopUrlPrefix ELSE MobileUrlPrefix)
    \o phoneNumber \o TextParam \o message

\* isMobile ? `whatsapp://send?phone=${phoneNumber}&text=${message}`
\*          : `https://web.whatsapp.com/send?phone=${phoneNumber}&text=${message}`
DeepLink(mobile, phoneNumber, message) ==
  (IF mobile THEN MobileUrlPrefix ELSE DesktopUrlPrefix)
    \o phoneNumber \o TextParam \o message

\* mutation: has_message is computed from the phone number
AnalyticsRequest_HasMessageOfPhone(s, w) ==
  [kind   |-> "analytics",
   method |-> "POST",
   url    |-> s.app_manager_url.v \o AnalyticsPath,
   status |-> "pending",
   body   |-> [website_id |-> s.website_id.v,
               app_id     |-> s.app_id.v,
               event_type |-> "whatsapp_clicked",
               event_data |-> [phone       |-> w.phoneNumber,
                               has_message |-> w.phoneNumber # <<>>,
                               position    |-> w.position]]]

\* the fetch of the analytics endpoint, as issued
AnalyticsRequest(s, w) ==
  [kind   |-> "analytics",
   method |-> "POST",
   url    |-> s.app_manager_url.v \o AnalyticsPath,
   status |-> "pending",
   body   |-> [website_id |-> s.website_id.v,
               app_id     |-> s.app_id.v,
               event_type |-> "whatsapp_clicked",
               event_data |-> [phone       |-> w.phoneNumber,
                               has_message |-> w.defaultMessage # <<>>,
                               position    |-> w.position]]]

\* mutation: window.open is skipped once an analytics request was rejected
handleClick_StopsAfterRejection ==
  LET message == encodeURIComponent(widget.defaultMessage)
      mobile  == MobileRegexTest(userAgent)
      url     == DeepLink(mobile, widget.phoneNumber, message)
  IN  /\ isMobile' = Some(mobile)
      /\ console' = Append(console, Entry("log", "Opening WhatsApp:"))
      /\ requests' = Append(requests, AnalyticsRequest(script, widget))
      /\ opened' = IF \E i \in DOMAIN requests :
                        requests[i].status = "rejected"
                   THEN opened
                   ELSE Append(opened, [url |-> url, target |-> "_blank"])

\* mutation: the POST is awaited, so the handler run that issues it does not
\* reach window.open
handleClick_Awaited ==
  /\ isMobile' = Some(MobileRegexTest(userAgent))
  /\ console' = Append(console, Entry("log", "Opening WhatsApp:"))
  /\ requests' = Append(requests, AnalyticsRequest(script, widget))
  /\ opened' = opened

\* mutation: the POST is skipped while an earlier one is pending
handleClick_Debounced ==
  LET message == encodeURIComponent(widget.defaultMessage)
      mobile  == MobileRegexTest(userAgent)
      url     == DeepLink(mobile, widget.phoneNumber, message)
  IN  /\ isMobile' = Some(mobile)
      /\ console' = Append(console, Entry("log", "Opening WhatsApp:"))
      /\ requests' = IF \E i \in DOMAIN requests :
                          /\ requests[i].kind = "analytics"
                          /\ requests[i].status = "pending"
                     THEN requests
                     ELSE Append(requests, AnalyticsRequest(script, widget))
      /\ opened' = Append(opened, [url |-> url, target |-> "_blank"])

\* one run of handleClick: the log entry, the POST and the window.open call,
\* in the order of the code; the POST is not awaited
handleClick ==
  LET message == encodeURIComponent(widget.defaultMessage)
      mobile  == MobileRegexTest(userAgent)
      url     == DeepLink(mobile, widget.phoneNumber, message)
  IN  /\ isMobile' = Some(mobile)
      /\ console' = Append(console, Entry("log", "Opening WhatsApp:"))
      /\ requests' = Append(requests, AnalyticsRequest(script, widget))
      /\ opened' = Append(opened, [url |-> url, target |-> "_blank"])

\* the bubble can receive events once it is in the document
Interactive == bubble.exists /\ \E i \in DOMAIN body : body[i] = "bubble"

\* mutation: the pre-filled message is used once and then cleared
Click_ClearsMessage ==
  /\ Interactive
  /\ "click" \in bubble.listeners
  /\ activations < MaxActivations
  /\ activations' = activations + 1
  /\ lastEvent' = [type |-> "click", key |-> "", defaultPrevented |-> FALSE]
  /\ handleClick
  /\ widget' = [widget EXCEPT !.defaultMessage = <<>>]
  /\ UNCHANGED <<sdk, lastHover, script, pc, response, bubble, body, created,
                 userAgent>>

\* a pointer click on the bubble
Click ==
  /\ Interactive
  /\ "click" \in bubble.listeners
  /\ activations < MaxActivations
  /\ activations' = activations + 1
  /\ lastEvent' = [type |-> "click", key |-> "", defaultPrevented |-> FALSE]
  /\ handleClick
  /\ UNCHANGED <<sdk, lastHover, script, pc, response, widget, bubble, body, created,
                 userAgent>>

\* mutation: only Enter activates
ActivationKey_EnterOnly(key) == key = "Enter"

\* mutation: Tab activates as well
ActivationKey_WithTab(key) == key = "Enter" \/ key = " " \/ key = "Tab"

\* e.key === 'Enter' || e.key === ' '
ActivationKey(key) == key = "Enter" \/ key = " "

\* a keydown on the bubble                (index.ts:139-144)
KeyDown(key) ==
  /\ Interactive
  /\ "keydown" \in bubble.listeners
  /\ key \in {"Enter", " "} => activations < MaxActivations
  /\ activations' = IF key \in {"Enter", " "} THEN activations + 1
                    ELSE activations
  /\ IF ActivationKey(key)
     THEN /\ lastEvent' = [type |-> "keydown", key |-> key,
                           defaultPrevented |-> TRUE]
          /\ handleClick
     ELSE /\ lastEvent' = [type |-> "keydown", key |-> key,
                           defaultPrevented |-> FALSE]
          /\ UNCHANGED <<console, requests, opened, isMobile>>
  /\ UNCHANGED <<sdk, lastHover, script, pc, response, widget, bubble, body, created,
                 userAgent>>

\* mouseenter                              (index.ts:147-150)
MouseEnter ==
  /\ Interactive
  /\ "mouseenter" \in bubble.listeners
  /\ bubble' = [bubble EXCEPT !.style.transform = "scale(1.1)",
                              !.style.boxShadow = HoverShadow]
  /\ lastHover' = "mouseenter"
  /\ UNCHANGED <<sdk, script, pc, requests, response, console, widget, body,
                 created, opened, userAgent, isMobile, lastEvent,
                 activations>>

\* mutation: mouseleave resets the scale but not the shadow
MouseLeave_KeepsShadow ==
  /\ Interactive
  /\ "mouseleave" \in bubble.listeners
  /\ bubble' = [bubble EXCEPT !.style.transform = "scale(1)"]
  /\ lastHover' = "mouseleave"
  /\ UNCHANGED <<sdk, script, pc, requests, response, console, widget, body,
                 created, opened, userAgent, isMobile, lastEvent,
                 activations>>

\* mouseleave                              (index.ts:152-155)
MouseLeave ==
  /\ Interactive
  /\ "mouseleave" \in bubble.listeners
  /\ bubble' = [bubble EXCEPT !.style.transform = "scale(1)",
                              !.style.boxShadow = RestShadow]
  /\ lastHover' = "mouseleave"
  /\ UNCHANGED <<sdk, script, pc, requests, response, console, widget, body,
                 created, opened, userAgent, isMobile, lastEvent,
                 activations>>

\* the analytics POST number i settles: a response is ignored, a rejection
\* reaches the catch callback             (index.ts:131)
AnalyticsSettle(i, outcome) ==
  /\ i \in DOMAIN requests
  /\ requests[i].kind = "analytics"
  /\ requests[i].status = "pending"
  /\ requests' = [requests EXCEPT ![i].status = outcome]
  /\ console' = IF outcome = "rejected"
                THEN Append(console, Entry("warn", "Analytics failed:"))
                ELSE console
  /\ UNCHANGED <<sdk, lastHover, script, pc, response, widget, bubble, body, created,
                 opened, userAgent, isMobile, lastEvent, activations>>

\* the environment changes navigator.userAgent (device emulation)
SetUserAgent(ua) ==
  /\ ua # userAgent
  /\ userAgent' = ua
  /\ UNCHANGED <<sdk, lastHover, script, pc, requests, response, console, widget, bubble,
                 body, created, opened, isMobile, lastEvent, activations>>

\* ------------------------------------------------------------------------
\* One page load
\* ------------------------------------------------------------------------

Next ==
  \/ Bootstrap
  \/ pc = "authorizing" /\ \E data \in AuthorizationData : AuthorizeRespond(data)
  \/ \E cause \in {"network", "parse"} : AuthorizeFail(cause)
  \/ Click
  \/ \E key \in Keys : KeyDown(key)
  \/ MouseEnter
  \/ MouseLeave
  \/ \E i \in 1..(MaxActivations + 1) :
       \E outcome \in {"resolved", "rejected"} : AnalyticsSettle(i, outcome)
  \/ \E ua \in UserAgents : SetUserAgent(ua)

Spec == Init /\ [][Next]_vars

\* ------------------------------------------------------------------------
\* The device classification on its own: index.ts:109 applied to a range of
\* user-agent strings
\* ------------------------------------------------------------------------

ToLowerCase ==
  [c \in Range(UpperCase) |->
     LowerCase[CHOOSE i \in DOMAIN UpperCase : UpperCase[i] = c]]

Lowered(s) ==
  [i \in DOMAIN s |-> IF s[i] \in DOMAIN ToLowerCase THEN ToLowerCase[s[i]]
                      ELSE s[i]]

Uppered(s) == [i \in DOMAIN s |-> Canonicalize(s[i])]

\* the middle of a user agent: each token as written, in upper case, in lower
\* case and cut short by one character, and texts that hold no token
AgentCores ==
  {MobileTokens[k] : k \in DOMAIN MobileTokens}
  \cup {Uppered(MobileTokens[k]) : k \in DOMAIN MobileTokens}
  \cup {Lowered(MobileTokens[k]) : k \in DOMAIN MobileTokens}
  \cup {SubSeq(MobileTokens[k], 1, Len(MobileTokens[k]) - 1) :
          k \in DOMAIN MobileTokens}
  \cup {<<>>,
        <<"W","i","n","d","o","w","s"," ","N","T">>,
        <<"M","a","c","i","n","t","o","s","h">>,
        <<"O","p","e","r","a","M","i","n","i">>,
        <<"O","p","e","r","a","_","M","i","n","i">>,
        <<"M","o","b","i","l","e">>,
        <<"X","1","1",";"," ","L","i","n","u","x">>}

SampleUserAgents ==
  {pre \o core \o post :
     pre \in {<<>>, <<"M","o","z","i","l","l","a","/","5",".","0"," ","(">>},
     core \in AgentCores,
     post \in {<<>>, <<")"," ","S","a","f","a","r","i","/","5","3","7">>}}

InitClassify ==
  /\ script = [website_id |-> Some(<<"w","1">>), app_id |-> Some(<<"a","7">>),
               app_manager_url |-> Some(<<"h","t","t","p","s",":","/","/","m",".","i","o">>)]
  /\ pc = "load"
  /\ requests = <<>>
  /\ response = NoResponse
  /\ console = <<>>
  /\ widget = NoWidget
  /\ bubble = NoBubble
  /\ body = <<>>
  /\ created = 0
  /\ opened = <<>>
  /\ userAgent \in SampleUserAgents
  /\ isMobile = NoBool
  /\ lastEvent = NoEvent
  /\ activations = 0
  /\ lastHover = "none"
  /\ sdk = NoSdk

\* const isMobile = /.../i.test(navigator.userAgent)
Classify ==
  /\ ~isMobile.has
  /\ isMobile' = Some(MobileRegexTest(userAgent))
  /\ UNCHANGED <<sdk, lastHover, script, pc, requests, response, console, widget, bubble,
                 body, created, opened, userAgent, lastEvent, activations>>

NextClassify == Classify

SpecClassify == InitClassify /\ [][NextClassify]_vars

\* ------------------------------------------------------------------------
\* The SDK-class variant: WhatsAppBubbleWidget      (part_001:87-371)
\*
\* sdk.bubble is the reference held by this.bubble (the id of an element, 0
\* for null), sdk.body the children of document.body, sdk.log the messages
\* passed to this.log, sdk.error the message of the error onInit threw.
\* ------------------------------------------------------------------------

\* onConfigUpdate calls explored per widget
MaxUpdates == 2

\* onDestroy calls explored per widget
MaxStops == 2

\* offset_x / offset_y values: absent, zero, the ends of the documented range
\* and a value inside it
Offsets == {NoNum, Some(0), Some(10), Some(35), Some(100)}

\* bubble_size values: absent, zero and a value of the documented range
Sizes == {NoNum, Some(0), Some(48)}

TooltipTexts == {NoName, Some(""), Some("Chat now")}

ValidConfig == [EmptyConfig EXCEPT !.phone_number = Some(ExamplePhone)]

\* configurations the SDK may deliver: every position with every pair of
\* offsets, sizes, tooltip settings, and phones with every enabled flag
SdkConfigs ==
  {[ValidConfig EXCEPT !.position = q, !.offset_x = x, !.offset_y = y] :
      q \in Positions, x \in Offsets, y \in Offsets}
  \cup
  {[ValidConfig EXCEPT !.position = q, !.bubble_size = z,
                       !.bubble_color = Some("#FF0000")] :
      q \in {NoName, Some("top-left"), Some("center")}, z \in Sizes}
  \cup
  {[ValidConfig EXCEPT !.show_tooltip = t, !.tooltip_text = x] :
      t \in Booleans, x \in TooltipTexts}
  \cup
  {[EmptyConfig EXCEPT !.phone_number = p, !.enabled = e,
                       !.default_message = Some(ExampleMessage)] :
      p \in {NoStr, Some(<<>>), Some(Digits(MinPhoneDigits - 1)),
             Some(ExamplePhone), Some(Digits(MaxPhoneDigits + 1))},
      e \in Booleans}

\* mutation: the enabled flag is read before the phone is checked
onInit_EnabledFirst(config) ==
  IF config.enabled.has /\ config.enabled.v = FALSE
  THEN [threw |-> FALSE, error |-> "",
        log |-> <<"Widget is disabled in configuration">>]
  ELSE IF ~TruthyStr(config.phone_number)
  THEN [threw |-> TRUE, error |-> "phone_number is required", log |-> <<>>]
  ELSE IF ~PhoneRegexTest(config.phone_number.v)
  THEN [threw |-> TRUE, error |-> "Invalid phone_number format", log |-> <<>>]
  ELSE [threw |-> FALSE, error |-> "", log |-> <<"Widget initialized">>]

\* onInit(config): whether it throws, the message of the error, and what it
\* passes to this.log                      (part_001:138-163)
onInit(config) ==
  IF ~TruthyStr(config.phone_number)
  THEN [threw |-> TRUE, error |-> "phone_number is required", log |-> <<>>]
  ELSE IF ~PhoneRegexTest(config.phone_number.v)
  THEN [threw |-> TRUE, error |-> "Invalid phone_number format", log |-> <<>>]
  ELSE IF config.enabled.has /\ config.enabled.v = FALSE
  THEN [threw |-> FALSE, error |-> "",
        log |-> <<"Widget is disabled in configuration">>]
  ELSE [threw |-> FALSE, error |-> "", log |-> <<"Widget initialized">>]

\* the positionStyles table               (part_001:347-352)
positionStyles(offsetX, offsetY) ==
  ("bottom-right" :> (("bottom" :> offsetY) @@ ("right" :> offsetX)))
  @@ ("bottom-left" :> (("bottom" :> offsetY) @@ ("left" :> offsetX)))
  @@ ("top-right" :> (("top" :> offsetY) @@ ("right" :> offsetX)))
  @@ ("top-left" :> (("top" :> offsetY) @@ ("left" :> offsetX)))

\* getBubbleStyles(config): the style object; spreading the entry of a
\* position that is not a key of the table adds no property
getBubbleStyles(config) ==
  LET size     == IF TruthyNum(config.bubble_size)
                  THEN config.bubble_size.v ELSE 60
      offsetX  == IF TruthyNum(config.offset_x) THEN config.offset_x.v ELSE 20
      offsetY  == IF TruthyNum(config.offset_y) THEN config.offset_y.v ELSE 20
      color    == IF TruthyName(config.bubble_color)
                  THEN config.bubble_color.v ELSE "#25D366"
      position == IF TruthyName(config.position)
                  THEN config.position.v ELSE "bottom-right"
      table    == positionStyles(offsetX, offsetY)
  IN  [position        |-> "fixed",
       width           |-> Some(size),
       height          |-> Some(size),
       backgroundColor |-> color,
       borderRadius    |-> "50%",
       display         |-> "flex",
       alignItems      |-> "center",
       justifyContent  |-> "center",
       cursor          |-> "pointer",
       boxShadow       |-> "0 4px 12px rgba(0,0,0,0.15)",
       zIndex          |-> "999999",
       transition      |-> "transform 0.3s ease, box-shadow 0.3s ease",
       sides           |-> IF position \in DOMAIN table THEN table[position]
                           ELSE <<>>,
       transform       |-> ""]

\* onRender(config) on the page s: the element is created, styled, given its
\* listeners and attributes, and appended   (part_001:181-226)
onRender(s, config) ==
  LET text   == IF TruthyName(config.tooltip_text)
                THEN config.tooltip_text.v ELSE "Chat with us on WhatsApp"
      access == ("role" :> "button") @@ ("tabindex" :> "0")
      el     == [id         |-> s.created + 1,
                 tag        |-> "div",
                 className  |-> "whatsapp-bubble",
                 style      |-> getBubbleStyles(config),
                 children   |-> <<"svg">>,
                 attributes |-> IF NotFalse(config.show_tooltip)
                                THEN ("title" :> text) @@ ("aria-label" :> text)
                                       @@ access
                                ELSE access,
                 listeners  |-> {"click", "keydown"},
                 config     |-> config]
  IN  [s EXCEPT !.bubble = el.id,
                !.created = @ + 1,
                !.body = Append(@, el),
                !.log = Append(@, "Widget rendered")]

\* mutation: this.bubble.remove() is called without the null check
onDestroy_Unguarded(s) ==
  IF s.bubble # 0
  THEN [s EXCEPT !.body = SelectSeq(@, LAMBDA e : e.id # s.bubble),
                 !.bubble = 0,
                 !.log = Append(@, "Widget destroyed")]
  ELSE [s EXCEPT !.error = "TypeError: Cannot read properties of null"]

\* onDestroy() on the page s               (part_001:245-257)
onDestroy(s) ==
  LET removed == IF s.bubble # 0
                 THEN [s EXCEPT !.body = SelectSeq(@, LAMBDA e : e.id # s.bubble),
                                !.bubble = 0]
                 ELSE s
  IN  [removed EXCEPT !.log = Append(@, "Widget destroyed")]

\* mutation: the new bubble is rendered without destroying the old one
onConfigUpdate_NoDestroy(s, newConfig) ==
  LET rendered == onRender(s, newConfig)
  IN  [rendered EXCEPT !.log = Append(@, "Widget updated with new config")]

\* onConfigUpdate(newConfig) on the page s (part_001:275-281)
onConfigUpdate(s, newConfig) ==
  LET rendered == onRender(onDestroy(s), newConfig)
  IN  [rendered EXCEPT !.log = Append(@, "Widget updated with new config")]

\* The driver: it holds the configuration and invokes the callbacks in fixed
\* order, onInit, then onRender, then onConfigUpdate any number of times,
\* then onDestroy.  An error thrown by onInit ends the sequence.

DriverInit ==
  /\ sdk.phase = "start"
  /\ LET r == onInit(sdk.config)
     IN  sdk' = [sdk EXCEPT !.phase = IF r.threw THEN "failed" ELSE "inited",
                            !.error = r.error,
                            !.log = @ \o r.log]
  /\ UNCHANGED <<script, pc, requests, response, console, widget, bubble,
                 body, created, opened, userAgent, isMobile, lastEvent,
                 activations, lastHover>>

DriverRender ==
  /\ sdk.phase = "inited"
  /\ sdk' = [onRender(sdk, sdk.config) EXCEPT !.phase = "live"]
  /\ UNCHANGED <<script, pc, requests, response, console, widget, bubble,
                 body, created, opened, userAgent, isMobile, lastEvent,
                 activations, lastHover>>

DriverReload(newConfig) ==
  /\ sdk.phase = "live"
  /\ sdk.updates < MaxUpdates
  /\ sdk' = [onConfigUpdate(sdk, newConfig) EXCEPT !.config = newConfig,
                                                   !.updates = @ + 1]
  /\ UNCHANGED <<script, pc, requests, response, console, widget, bubble,
                 body, created, opened, userAgent, isMobile, lastEvent,
                 activations, lastHover>>

DriverStop ==
  /\ sdk.phase \in {"failed", "inited", "live", "stopped"}
  /\ sdk.stops < MaxStops
  /\ sdk' = [onDestroy(sdk) EXCEPT !.phase = "stopped", !.stops = @ + 1]
  /\ UNCHANGED <<script, pc, requests, response, console, widget, bubble,
                 body, created, opened, userAgent, isMobile, lastEvent,
                 activations, lastHover>>

\* one page that is given a configuration: either the SDK class runs under
\* its driver or the minimal script is evaluated and receives the same
\* configuration from the authorization service
InitSdk ==
  /\ script = [website_id |-> Some(<<"w","1">>), app_id |-> Some(<<"a","7">>),
               app_manager_url |-> Some(<<"h","t","t","p","s",":","/","/","m",".","i","o">>)]
  /\ pc = "load"
  /\ requests = <<>>
  /\ response = NoResponse
  /\ console = <<>>
  /\ widget = NoWidget
  /\ bubble = NoBubble
  /\ body = <<>>
  /\ created = 0
  /\ opened = <<>>
  /\ userAgent = DesktopUserAgent
  /\ isMobile = NoBool
  /\ lastEvent = NoEvent
  /\ activations = 0
  /\ lastHover = "none"
  /\ sdk \in {[NoSdk EXCEPT !.phase = "start", !.config = c] : c \in SdkConfigs}

NextSdk ==
  \/ sdk.phase = "start" /\ Bootstrap
  \/ sdk.phase = "start" /\ pc = "authorizing"
       /\ AuthorizeRespond([authorized |-> TRUE, config |-> Some(sdk.config)])
  \/ pc = "load" /\ DriverInit
  \/ DriverRender
  \/ \E newConfig \in SdkConfigs : DriverReload(newConfig)
  \/ DriverStop

SpecSdk == InitSdk /\ [][NextSdk]_vars

\* ------------------------------------------------------------------------
\* Activation in the SDK class             (part_001:198-218, 301-322)
\*
\* sdk.tracked holds the calls of this.track, sdk.opened the calls of
\* window.open made by the class.  this.isMobile() is a helper of the SDK
\* base class: its result is an input of the handler.
\* ------------------------------------------------------------------------

\* default_message values: absent, empty, plain and one that is escaped
ActivateMessages ==
  {NoStr, Some(<<>>), Some(ExampleMessage), Some(<<"a","&","b","=","c"," ","d">>)}

\* valid, enabled configurations that differ in what an activation reads
ActivateConfigs ==
  {[ValidConfig EXCEPT !.default_message = t, !.position = q] :
      t \in ActivateMessages,
      q \in {NoName, Some("top-left"), Some("center")}}

\* handleClick(config) on the page s, this.isMobile() returning mobile: the
\* this.track call, then window.open        (part_001:301-322)
sdkHandleClick(s, config, mobile) ==
  LET phone   == config.phone_number
      message == encodeURIComponent(IF TruthyStr(config.default_message)
                                    THEN config.default_message.v ELSE <<>>)
      url     == (IF mobile THEN MobileUrlPrefix ELSE DesktopUrlPrefix)
                   \o phone.v \o TextParam \o message
  IN  [s EXCEPT
         !.tracked = Append(@, [event |-> "whatsapp_clicked",
                                data  |-> [phone       |-> phone,
                                           has_message |-> TruthyStr(config.default_message),
                                           position    |-> config.position]]),
         !.opened = Append(@, [url |-> url, target |-> "_blank"])]

\* a pointer click on element i of the body (part_001:198)
SdkClick(i, mobile) ==
  /\ i \in DOMAIN sdk.body
  /\ "click" \in sdk.body[i].listeners
  /\ sdk.activations < MaxActivations
  /\ sdk' = [sdkHandleClick(sdk, sdk.body[i].config, mobile) EXCEPT
               !.activations = @ + 1,
               !.lastEvent = [type |-> "click", key |-> "",
                              defaultPrevented |-> FALSE]]
  /\ UNCHANGED <<script, pc, requests, response, console, widget, bubble,
                 body, created, opened, userAgent, isMobile, lastEvent,
                 activations, lastHover>>

\* a keydown on element i of the body      (part_001:213-218)
SdkKeyDown(i, key, mobile) ==
  /\ i \in DOMAIN sdk.body
  /\ "keydown" \in sdk.body[i].listeners
  /\ key \in {"Enter", " "} => sdk.activations < MaxActivations
  /\ sdk' = [(IF ActivationKey(key)
              THEN sdkHandleClick(sdk, sdk.body[i].config, mobile)
              ELSE sdk) EXCEPT
               !.activations = IF key \in {"Enter", " "} THEN @ + 1 ELSE @,
               !.lastEvent = [type |-> "keydown", key |-> key,
                              defaultPrevented |-> ActivationKey(key)]]
  /\ UNCHANGED <<script, pc, requests, response, console, widget, bubble,
                 body, created, opened, userAgent, isMobile, lastEvent,
                 activations, lastHover>>

\* one page on which both variants are given the same configuration: the
\* minimal script is evaluated and authorized, the class is initialised and
\* rendered, and both bubbles receive clicks and keys
InitActivate ==
  /\ script = [website_id |-> Some(<<"w","1">>), app_id |-> Some(<<"a","7">>),
               app_manager_url |-> Some(<<"h","t","t","p","s",":","/","/","m",".","i","o">>)]
  /\ pc = "load"
  /\ requests = <<>>
  /\ response = NoResponse
  /\ console = <<>>
  /\ widget = NoWidget
  /\ bubble = NoBubble
  /\ body = <<>>
  /\ created = 0
  /\ opened = <<>>
  /\ userAgent \in {DesktopUserAgent, AndroidUserAgent}
  /\ isMobile = NoBool
  /\ lastEvent = NoEvent
  /\ activations = 0
  /\ lastHover = "none"
  /\ sdk \in {[NoSdk EXCEPT !.phase = "start", !.config = c] :
                c \in ActivateConfigs}

NextActivate ==
  \/ Bootstrap
  \/ pc = "authorizing"
       /\ AuthorizeRespond([authorized |-> TRUE, config |-> Some(sdk.config)])
  \/ Click
  \/ \E key \in Keys : KeyDown(key)
  \/ DriverInit
  \/ DriverRender
  \/ \E i \in DOMAIN sdk.body, mobile \in BOOLEAN : SdkClick(i, mobile)
  \/ \E i \in DOMAIN sdk.body, key \in Keys, mobile \in BOOLEAN :
        SdkKeyDown(i, key, mobile)

SpecActivate == InitActivate /\ [][NextActivate]_vars

\* ------------------------------------------------------------------------
\* Vocabulary of the properties
\* ------------------------------------------------------------------------

\* the bubble is a child of document.body
BubbleInDocument == \E i \in DOMAIN body : body[i] = "bubble"

\* no element was created, none is in the document, no listener exists
NothingRendered == created = 0 /\ body = <<>> /\ ~bubble.exists

\* the configuration object of the authorization response, {} when absent
ReceivedConfig ==
  IF response.v.config.has THEN response.v.config.v ELSE EmptyConfig

\* ^[0-9]{10,15}$ read as: ten to fifteen characters, each a decimal digit
TenToFifteenDigits(s) ==
  /\ Len(s) >= 10
  /\ Len(s) <= 15
  /\ \A i \in DOMAIN s :
       s[i] \in {"0", "1", "2", "3", "4", "5", "6", "7", "8", "9"}

AttributeNames == {"website_id", "app_id", "app_manager_url"}

AuthorizeCount ==
  Cardinality({i \in DOMAIN requests : requests[i].kind = "authorize"})

AnalyticsCount ==
  Cardinality({i \in DOMAIN requests : requests[i].kind = "analytics"})

\* ------------------------------------------------------------------------
\* Properties
\* ------------------------------------------------------------------------

\* C1: when the configuration returned by the authorization service has
\* enabled === false, no element is created and nothing is appended to the
\* body, whatever the other fields are.
C1_DisabledNeverRenders ==
  (response.has /\ response.v.config.has
     /\ response.v.config.v.enabled = Some(FALSE))
  => NothingRendered

\* C1 happens: an authorized response with a valid phone number, style fields
\* and enabled === false was handled
C1_Witness ==
  /\ pc = "settled"
  /\ response.has
  /\ response.v.authorized
  /\ response.v.config.has
  /\ response.v.config.v.enabled = Some(FALSE)
  /\ TenToFifteenDigits(response.v.config.v.phone_number.v)
  /\ response.v.config.v.bubble_size.has

\* C2: when phone_number is absent, empty or does not match ^[0-9]{10,15}$,
\* initWidget aborts before any element is created: nothing is appended and
\* no listener is attached.
C2_InvalidPhoneAborts ==
  (response.has
     /\ \/ ~ReceivedConfig.phone_number.has
        \/ ReceivedConfig.phone_number.v = <<>>
        \/ ~TenToFifteenDigits(ReceivedConfig.phone_number.v))
  => NothingRendered

\* C2 happens: an authorized, enabled configuration whose phone number has
\* sixteen digits was handled
C2_Witness ==
  /\ pc = "settled"
  /\ response.has
  /\ response.v.authorized
  /\ response.v.config.has
  /\ response.v.config.v.enabled = Some(TRUE)
  /\ Len(response.v.config.v.phone_number.v) = 16
  /\ \A i \in 1..16 : response.v.config.v.phone_number.v[i] \in DigitChars

\* C3: when one of the three data attributes is missing the script logs an
\* error and terminates: no request (authorize or analytics) is ever issued
\* and no bubble is appended.
C3_MissingAttributeNoNetwork ==
  (\E a \in AttributeNames : ~script[a].has)
  => /\ requests = <<>>
     /\ NothingRendered
     /\ pc \in {"load", "terminated"}
     /\ pc = "terminated" =>
          \E i \in DOMAIN console : console[i].level = "error"

\* C3 happens: the script ran with only data-app-manager-url missing
C3_Witness ==
  /\ pc = "terminated"
  /\ ~script.app_manager_url.has
  /\ TruthyStr(script.website_id)
  /\ TruthyStr(script.app_id)

\* C4: a bubble is in the document only after a response with authorized
\* true was received; while the request is pending, after a rejection, a
\* parse failure or authorized false there is none.
C4_BubbleOnlyAfterAuthorized ==
  BubbleInDocument
  => /\ pc = "settled"
     /\ requests[1].status = "resolved"
     /\ response.has
     /\ response.v.authorized = TRUE

\* C4 happens: the bubble is in the document
C4_Witness ==
  /\ BubbleInDocument
  /\ response.has
  /\ response.v.authorized

\* C5: at most one authorize request exists in every state, and exactly one
\* once the script ran with all three attributes, whatever the outcome of
\* the request.
C5_OneAuthorizeRequest ==
  /\ AuthorizeCount <= 1
  /\ (pc # "load" /\ \A a \in AttributeNames : TruthyStr(script[a]))
       => AuthorizeCount = 1

\* C5 happens: the authorize request was rejected and no other was issued
C5_Witness ==
  /\ pc = "settled"
  /\ requests[1].status = "rejected"
  /\ AuthorizeCount = 1

\* ------------------------------------------------------------------------
\* Vocabulary of the deep-link properties
\* ------------------------------------------------------------------------

\* the tokens the specification lists
ListedTokens ==
  {<<"A","n","d","r","o","i","d">>,
   <<"w","e","b","O","S">>,
   <<"i","P","h","o","n","e">>,
   <<"i","P","a","d">>,
   <<"i","P","o","d">>,
   <<"B","l","a","c","k","B","e","r","r","y">>,
   <<"I","E","M","o","b","i","l","e">>,
   <<"O","p","e","r","a"," ","M","i","n","i">>}

\* t occurs in ua when letter case is ignored
ContainsIgnoringCase(ua, t) ==
  \E i \in 1..(Len(ua) - Len(t) + 1) :
     Lowered(SubSeq(ua, i, i + Len(t) - 1)) = Lowered(t)

\* ua holds one of the tokens of the set tokens
HoldsTokenOf(ua, tokens) == \E t \in tokens : ContainsIgnoringCase(ua, t)

HexValue(c) == (CHOOSE i \in DOMAIN HexDigits : HexDigits[i] = c) - 1

\* a URL component read back: a %XX escape is an octet, any other character
\* stands for itself
RECURSIVE UriDecoded(_)
UriDecoded(t) ==
  IF t = <<>> THEN <<>>
  ELSE IF Head(t) # "%" THEN <<[char |-> Head(t)]>> \o UriDecoded(Tail(t))
  ELSE IF Len(t) >= 3 /\ t[2] \in Range(HexDigits) /\ t[3] \in Range(HexDigits)
  THEN <<[octet |-> 16 * HexValue(t[2]) + HexValue(t[3])]>>
         \o UriDecoded(SubSeq(t, 4, Len(t)))
  ELSE <<[malformed |-> TRUE]>>

\* a message as the characters that need no escape and the UTF-8 octets of
\* the others
RECURSIVE OctetsOf(_)
OctetsOf(m) ==
  IF m = <<>> THEN <<>>
  ELSE (IF Head(m) \in UriUnreserved THEN <<[char |-> Head(m)]>>
        ELSE [i \in DOMAIN Utf8(CodePoint[Head(m)]) |->
                [octet |-> Utf8(CodePoint[Head(m)])[i]]])
       \o OctetsOf(Tail(m))

\* t is a URL encoding of m: it is made of unreserved characters and escapes
\* only, and decodes to m
IsUrlEncodingOf(t, m) ==
  /\ \A i \in DOMAIN t : t[i] = "%" \/ t[i] \in UriUnreserved
  /\ UriDecoded(t) = OctetsOf(m)

\* url is the deep link of the configuration config for the device class
IsDeepLinkOf(url, mobile, config) ==
  LET prefix == (IF mobile THEN MobileUrlPrefix ELSE DesktopUrlPrefix)
                  \o config.phone_number.v \o TextParam
      msg    == IF config.default_message.has THEN config.default_message.v
                ELSE <<>>
  IN  /\ Len(url) >= Len(prefix)
      /\ SubSeq(url, 1, Len(prefix)) = prefix
      /\ IsUrlEncodingOf(SubSeq(url, Len(prefix) + 1, Len(url)), msg)
      /\ msg = <<>> => url = prefix

ExampleMobileUrl == <<"w","h","a","t","s","a","p","p",":","/","/","s","e","n","d","?","p","h","o","n","e","=","5","4","9","1","1","1","2","3","4","5","6","7","8","&","t","e","x","t","=","H","e","l","l","o">>

ExampleDesktopUrl == <<"h","t","t","p","s",":","/","/","w","e","b",".","w","h","a","t","s","a","p","p",".","c","o","m","/","s","e","n","d","?","p","h","o","n","e","=","5","4","9","1","1","1","2","3","4","5","6","7","8","&","t","e","x","t","=","H","e","l","l","o">>

ExampleMobileUrlNoText == <<"w","h","a","t","s","a","p","p",":","/","/","s","e","n","d","?","p","h","o","n","e","=","5","4","9","1","1","1","2","3","4","5","6","7","8","&","t","e","x","t","=">>

ExampleDesktopUrlNoText == <<"h","t","t","p","s",":","/","/","w","e","b",".","w","h","a","t","s","a","p","p",".","c","o","m","/","s","e","n","d","?","p","h","o","n","e","=","5","4","9","1","1","1","2","3","4","5","6","7","8","&","t","e","x","t","=">>

\* this step delivers the rejection of an analytics POST
RejectionDelivered ==
  \E i \in DOMAIN requests :
     /\ requests[i].kind = "analytics"
     /\ requests[i].status = "pending"
     /\ requests'[i].status = "rejected"

\* this step issues an analytics POST
PostIssued ==
  /\ Len(requests') = Len(requests) + 1
  /\ requests'[Len(requests')].kind = "analytics"

\* this step dispatches a keydown of Enter or Space on the bubble
ActivationKeyPressed ==
  /\ lastEvent'.type = "keydown"
  /\ lastEvent'.key \in {"Enter", " "}
  /\ lastEvent' # lastEvent \/ activations' # activations

\* C6, in every state: each activation so far called window.open with a deep
\* link of the configuration, whatever became of the analytics requests
C6_EveryActivationOpened ==
  /\ Len(opened) = activations
  /\ \A i \in DOMAIN opened :
       /\ opened[i].target = "_blank"
       /\ \E mobile \in BOOLEAN :
            IsDeepLinkOf(opened[i].url, mobile, ReceivedConfig)

\* C6, in every step: the delivery of a rejection adds one warning to the
\* console and changes nothing else but the status of the request
C6_RejectionOnlyWarns ==
  RejectionDelivered
  => /\ Len(console') = Len(console) + 1
     /\ console'[Len(console')].level = "warn"
     /\ SubSeq(console', 1, Len(console)) = console
     /\ UNCHANGED <<sdk, lastHover, script, pc, response, widget, bubble, body, created,
                    opened, userAgent, isMobile, lastEvent, activations>>

\* C6: on every activation window.open is invoked with the deep link, also
\* when analytics POSTs were rejected; a rejection is only logged as a
\* warning and changes no later activation.
C6_AnalyticsFailureHarmless ==
  []C6_EveryActivationOpened /\ [][C6_RejectionOnlyWarns]_vars

\* C6 happens: the rejection of the first POST was logged, then a second
\* activation opened its deep link
C6_Witness ==
  /\ Len(opened) = 2
  /\ \E i \in DOMAIN console : \E j \in DOMAIN console :
       /\ i < j
       /\ console[i].level = "warn"
       /\ console[j].msg = "Opening WhatsApp:"

\* C7, in every state: the k-th analytics POST, settled or not, has its
\* window.open call
C7_OpenedWhilePending ==
  \A i \in DOMAIN requests :
     requests[i].kind = "analytics" => Len(opened) >= i - AuthorizeCount

\* C7, in every step: the handler run that issues the POST also calls
\* window.open, and at the end of that run the POST is still pending and no
\* earlier request has settled in it
C7_OpenedInSameRun ==
  PostIssued
  => /\ Len(opened') = Len(opened) + 1
     /\ requests'[Len(requests')].status = "pending"
     /\ SubSeq(requests', 1, Len(requests)) = requests

\* C7: the analytics POST is not awaited: window.open is invoked in the
\* handler run that issues the POST, before any response or rejection is
\* delivered, and a POST that never completes prevents no deep link, of this
\* or a later activation.
C7_AnalyticsNotAwaited ==
  []C7_OpenedWhilePending /\ [][C7_OpenedInSameRun]_vars

\* C7 happens: two activations opened their deep links while both POSTs are
\* still pending
C7_Witness ==
  /\ Len(opened) = 2
  /\ Len(requests) = 3
  /\ requests[2].status = "pending"
  /\ requests[3].status = "pending"

\* C8, in every state: the URLs opened for the example of the specification
\* (phone 5491112345678, message Hello or none) are the ones it gives
C8_ExampleUrls ==
  (response.has /\ ReceivedConfig.phone_number = Some(ExamplePhone))
  => \A i \in DOMAIN opened :
       /\ ReceivedConfig.default_message = Some(ExampleMessage)
            => opened[i].url \in {ExampleMobileUrl, ExampleDesktopUrl}
       /\ ~TruthyStr(ReceivedConfig.default_message)
            => opened[i].url \in {ExampleMobileUrlNoText,
                                  ExampleDesktopUrlNoText}

\* C8, in every step: the URL an activation opens is the whatsapp:// link
\* when the user agent of that moment holds a listed token and the
\* https://web.whatsapp.com link otherwise, with the configured phone number
\* and the URL-encoded default message (nothing after text= when unset)
C8_UrlOfActivation ==
  Len(opened') = Len(opened) + 1
  => IsDeepLinkOf(opened'[Len(opened')].url,
                  HoldsTokenOf(userAgent, ListedTokens), ReceivedConfig)

\* C8: for every valid configuration and every activation the opened URL is
\* whatsapp://send?phone={number}&text={message} on a mobile runtime and
\* https://web.whatsapp.com/send?phone={number}&text={message} otherwise.
C8_DeepLinkByDevice ==
  []C8_ExampleUrls /\ [][C8_UrlOfActivation]_vars

\* C8 happens: the example opened the desktop link, the user agent changed,
\* and the next activation opened the mobile link
C8_Witness ==
  /\ Len(opened) = 2
  /\ opened[1].url = ExampleDesktopUrl
  /\ opened[2].url = ExampleMobileUrl

\* C9 (as amended): a user agent that holds one of the eight listed tokens,
\* in any letter case, classifies as mobile, and every other one as desktop.
C9_EightTokensClassify ==
  /\ Cardinality(ListedTokens) = 8
  /\ isMobile.has => isMobile.v = HoldsTokenOf(userAgent, ListedTokens)

\* C9 happens: a user agent holding "opera mini" in lower case was
\* classified as mobile
C9_Witness ==
  /\ isMobile = Some(TRUE)
  /\ userAgent = <<"o","p","e","r","a"," ","m","i","n","i">>

\* C9 (as stated): the classification is decided by seven mobile tokens,
\* that is, some seven of the listed tokens classify every user agent the
\* way the script does.
C9_SevenTokensClassify ==
  isMobile.has
  => \E seven \in SUBSET ListedTokens :
        /\ Cardinality(seven) = 7
        /\ \A ua \in SampleUserAgents :
              MobileRegexTest(ua) = HoldsTokenOf(ua, seven)

\* C10, in every step: a keydown of Enter or Space calls preventDefault and
\* runs handleClick, the handler of the pointer click, on the same state
C10_KeyRunsClickHandler ==
  ActivationKeyPressed
  => /\ lastEvent'.defaultPrevented
     /\ handleClick
     /\ UNCHANGED <<sdk, lastHover, script, pc, response, widget, bubble, body, created,
                    userAgent>>

\* C10: a keydown with Enter or Space has exactly the effects of a pointer
\* click in the same state (same URL to window.open, same analytics POST),
\* and preventDefault is called on the event.
C10_KeyboardSameAsClick == [][C10_KeyRunsClickHandler]_vars

\* C10 happens: Space was pressed on the bubble, its default was prevented
\* and a deep link was opened
C10_Witness ==
  /\ lastEvent = [type |-> "keydown", key |-> " ", defaultPrevented |-> TRUE]
  /\ Len(opened) = 1
  /\ Len(requests) = 2

\* ------------------------------------------------------------------------
\* Vocabulary of the analytics, logging and hover properties
\* ------------------------------------------------------------------------

\* the position a configuration names, bottom-right when it names none
ConfiguredPosition(config) ==
  IF config.position.has /\ config.position.v # ""
  THEN config.position.v ELSE "bottom-right"

\* the vertical side a corner name holds
VerticalSide(corner) ==
  IF corner \in {"top-left", "top-right"} THEN "top" ELSE "bottom"

\* the horizontal side a corner name holds
HorizontalSide(corner) ==
  IF corner \in {"top-left", "bottom-left"} THEN "left" ELSE "right"

AnalyticsRequests == {i \in DOMAIN requests : requests[i].kind = "analytics"}

\* the console entries written after the 'Authorization data:' entry, which
\* is the fourth entry of a page load that reached the authorization response
LoggedSinceAuthorization == SubSeq(console, 4, Len(console))

\* the part of a deep link that follows its scheme and host: phone=...&text=...
UrlQuery(url) ==
  IF SubSeq(url, 1, 8) = <<"w","h","a","t","s","a","p","p">>
  THEN SubSeq(url, 17, Len(url))
  ELSE SubSeq(url, 31, Len(url))

\* C11: every activation issues one analytics POST to
\* {app_manager_url}/api/widget/analytics; its body carries the website_id and
\* app_id of the script attributes, event_type 'whatsapp_clicked', and
\* event_data with the configured phone, has_message true exactly when the
\* configured default message is non-empty, and the position the bubble was
\* rendered at (bottom-right when the configuration names none).
C11_AnalyticsBody ==
  /\ Cardinality(AnalyticsRequests) = activations
  /\ \A i \in AnalyticsRequests :
       LET r == requests[i]
           c == ReceivedConfig
       IN  /\ r.method = "POST"
           /\ r.url = script.app_manager_url.v
                \o <<"/","a","p","i","/","w","i","d","g","e","t","/","a","n","a","l","y","t","i","c","s">>
           /\ DOMAIN r.body = {"website_id", "app_id", "event_type", "event_data"}
           /\ r.body.website_id = script.website_id.v
           /\ r.body.app_id = script.app_id.v
           /\ r.body.event_type = "whatsapp_clicked"
           /\ DOMAIN r.body.event_data = {"phone", "has_message", "position"}
           /\ r.body.event_data.phone = c.phone_number.v
           /\ r.body.event_data.has_message
                = (c.default_message.has /\ c.default_message.v # <<>>)
           /\ r.body.event_data.position = ConfiguredPosition(c)
           /\ ConfiguredPosition(c) \in CornerNames =>
                DOMAIN bubble.style.sides
                  = {VerticalSide(r.body.event_data.position),
                     HorizontalSide(r.body.event_data.position)}

\* an activation reported no message and the default position for a
\* configuration that sets neither, and another reported a message
C11_Witness ==
  /\ activations = 2
  /\ Cardinality(AnalyticsRequests) = 2
  /\ \/ /\ ~ReceivedConfig.position.has
        /\ ~ReceivedConfig.default_message.has
        /\ requests[2].body.event_data.position = "bottom-right"
        /\ requests[2].body.event_data.has_message = FALSE
     \/ /\ ReceivedConfig.position = Some("top-left")
        /\ requests[2].body.event_data.position = "top-left"
        /\ requests[2].body.event_data.has_message = TRUE

\* C12 as stated: for every configuration with enabled === false, initWidget
\* logs no error and its only log is the informational 'Widget is disabled'.
C12_DisabledLogsNoError ==
  (response.has /\ response.v.authorized
     /\ ReceivedConfig.enabled = Some(FALSE))
  => LoggedSinceAuthorization = <<[level |-> "log", msg |-> "Widget is disabled"]>>

\* C12 (amended): for every configuration with enabled === false whose
\* phone_number matches ^[0-9]{10,15}$, initWidget logs no error and its only
\* log is the informational 'Widget is disabled'; no console entry of the
\* page load has the error level.
C12_DisabledValidPhoneLogsNoError ==
  (response.has /\ response.v.authorized
     /\ ReceivedConfig.enabled = Some(FALSE)
     /\ ReceivedConfig.phone_number.has
     /\ TenToFifteenDigits(ReceivedConfig.phone_number.v))
  => /\ LoggedSinceAuthorization
          = <<[level |-> "log", msg |-> "Widget is disabled"]>>
     /\ \A i \in DOMAIN console : console[i].level # "error"

\* a disabled configuration with a valid phone was received and initWidget
\* has returned
C12_Witness ==
  /\ response.has /\ response.v.authorized
  /\ ReceivedConfig.enabled = Some(FALSE)
  /\ ReceivedConfig.phone_number = Some(ExamplePhone)
  /\ pc = "settled"
  /\ Len(console) = 4

\* C17: at most one bubble element is ever created and appended to the body,
\* an activation happens only while that bubble is in the body, and once the
\* bubble is in the body no step removes it or appends it again.
C17_OneBubble ==
  /\ Len(body) <= 1
  /\ created <= 1
  /\ activations > 0 => BubbleInDocument

C17_NoRemoval ==
  /\ BubbleInDocument => body' = body /\ created' = created
  /\ activations' # activations => BubbleInDocument

C17_SingleShot == []C17_OneBubble /\ [][C17_NoRemoval]_vars

\* the bubble was appended and then activated
C17_Witness ==
  /\ body = <<"bubble">>
  /\ created = 1
  /\ activations >= 1
  /\ Len(opened) >= 1

\* C18: the scale and the shadow of the bubble are those of the last hover
\* event (scale 1.1 and the deeper shadow after mouseenter; scale 1 and the
\* shadow of the initial render after mouseleave), and a hover event changes
\* nothing but these two style properties: no request, no window.open, no
\* change to what a later activation opens.
C18_StyleOfLastHover ==
  BubbleInDocument =>
    /\ lastHover = "none" =>
         /\ bubble.style.transform = ""
         /\ bubble.style.boxShadow = "0 4px 12px rgba(0,0,0,0.15)"
    /\ lastHover = "mouseenter" =>
         /\ bubble.style.transform = "scale(1.1)"
         /\ bubble.style.boxShadow = "0 6px 20px rgba(0,0,0,0.25)"
    /\ lastHover = "mouseleave" =>
         /\ bubble.style.transform = "scale(1)"
         /\ bubble.style.boxShadow = "0 4px 12px rgba(0,0,0,0.15)"

C18_HoverChangesStyleOnly ==
  lastHover' # lastHover =>
    /\ UNCHANGED <<script, pc, requests, response, console, widget, body,
                   created, opened, userAgent, isMobile, lastEvent,
                   activations>>
    /\ bubble' = [bubble EXCEPT
                    !.style.transform = bubble'.style.transform,
                    !.style.boxShadow = bubble'.style.boxShadow]

C18_HoverStateless ==
  []C18_StyleOfLastHover /\ [][C18_HoverChangesStyleOnly]_vars

\* the pointer left an activated bubble: scale and shadow are back
C18_Witness ==
  /\ lastHover = "mouseleave"
  /\ activations >= 1
  /\ bubble.style.transform = "scale(1)"
  /\ bubble.style.boxShadow = "0 4px 12px rgba(0,0,0,0.15)"

\* C19: once initWidget has resolved phone, default message and position,
\* no step changes them, and every activation uses them: all analytics
\* bodies carry the same event_data and all opened URLs the same
\* phone=...&text=... part, that of the resolved values.
C19_SameResolvedValues ==
  /\ \A i, j \in AnalyticsRequests :
       requests[i].body.event_data = requests[j].body.event_data
  /\ \A i, j \in DOMAIN opened :
       UrlQuery(opened[i].url) = UrlQuery(opened[j].url)
  /\ \A i \in DOMAIN opened :
       /\ IsDeepLinkOf(opened[i].url, TRUE, ReceivedConfig)
          \/ IsDeepLinkOf(opened[i].url, FALSE, ReceivedConfig)
  /\ widget.initialized =>
       /\ widget.phoneNumber = ReceivedConfig.phone_number.v
       /\ widget.position = ConfiguredPosition(ReceivedConfig)
       /\ widget.defaultMessage
            = (IF ReceivedConfig.default_message.has
               THEN ReceivedConfig.default_message.v ELSE <<>>)

C19_NoHandlerModifies == widget.initialized => widget' = widget

C19_ResolvedConfigImmutable ==
  []C19_SameResolvedValues /\ [][C19_NoHandlerModifies]_vars

\* two activations with a hover in between used a configured message
C19_Witness ==
  /\ Len(opened) = 2
  /\ lastHover # "none"
  /\ ReceivedConfig.default_message = Some(ExampleMessage)
  /\ opened[1].url # opened[2].url

\* ------------------------------------------------------------------------
\* Vocabulary of the rendering properties
\* ------------------------------------------------------------------------

\* the bubbles in the document, of the minimal script and of the SDK class,
\* each with the configuration it was rendered from
RenderedBubbles ==
  (IF BubbleInDocument
   THEN {[config |-> ReceivedConfig, style |-> bubble.style,
          attributes |-> bubble.attributes]}
   ELSE {})
  \cup {[config |-> sdk.body[i].config, style |-> sdk.body[i].style,
         attributes |-> sdk.body[i].attributes] : i \in DOMAIN sdk.body}

\* the position of the configuration is of the enumerated type or absent
PositionOfEnum(config) ==
  ~config.position.has
    \/ config.position.v
         \in {"bottom-right", "bottom-left", "top-right", "top-left"}

\* C13: a rendered bubble sets the two sides of the configured corner
\* (bottom-right when unset) and no other; the vertical side holds the
\* configured offset_y and the horizontal side the configured offset_x, for
\* every numeric value, and 20 when the offset is unset.
C13_OffsetsAsConfigured ==
  \A b \in RenderedBubbles :
     LET corner == ConfiguredPosition(b.config)
         x == IF b.config.offset_x.has THEN b.config.offset_x.v ELSE 20
         y == IF b.config.offset_y.has THEN b.config.offset_y.v ELSE 20
     IN  PositionOfEnum(b.config) =>
           /\ DOMAIN b.style.sides
                = {VerticalSide(corner), HorizontalSide(corner)}
           /\ b.style.sides[VerticalSide(corner)] = y
           /\ b.style.sides[HorizontalSide(corner)] = x

\* C14: a rendered bubble has a width and a height, both equal to the
\* configured bubble_size for every numeric value, and to 60 when
\* bubble_size is unset.
C14_DiameterAsConfigured ==
  \A b \in RenderedBubbles :
     LET size == IF b.config.bubble_size.has THEN b.config.bubble_size.v
                 ELSE 60
     IN  PositionOfEnum(b.config) =>
           /\ b.style.width = [has |-> TRUE, v |-> size]
           /\ b.style.height = [has |-> TRUE, v |-> size]
           /\ b.style.width = b.style.height

\* C16: a rendered bubble has role="button" and tabindex="0"; it has a title
\* and an aria-label exactly when show_tooltip is not false, and both then
\* hold the configured tooltip_text, or 'Chat with us on WhatsApp' when no
\* tooltip text is set (absent or empty).
C16_AccessibilityAttributes ==
  \A b \in RenderedBubbles :
     LET shown == ~(b.config.show_tooltip.has
                      /\ b.config.show_tooltip.v = FALSE)
         text  == IF b.config.tooltip_text.has /\ b.config.tooltip_text.v # ""
                  THEN b.config.tooltip_text.v
                  ELSE "Chat with us on WhatsApp"
     IN  /\ {"role", "tabindex"} \subseteq DOMAIN b.attributes
         /\ b.attributes["role"] = "button"
         /\ b.attributes["tabindex"] = "0"
         /\ shown => /\ DOMAIN b.attributes
                          = {"role", "tabindex", "title", "aria-label"}
                     /\ b.attributes["title"] = text
                     /\ b.attributes["aria-label"] = text
         /\ ~shown => DOMAIN b.attributes = {"role", "tabindex"}

\* the minimal script rendered a bubble with a configured tooltip
C16_Witness ==
  /\ BubbleInDocument
  /\ ReceivedConfig.tooltip_text = Some("Chat now")
  /\ ReceivedConfig.show_tooltip = Some(TRUE)
  /\ bubble.attributes["title"] = "Chat now"
  /\ bubble.attributes["aria-label"] = "Chat now"

\* C20: under the driver (onInit, then onRender), a configuration with
\* enabled === false never has a bubble in the document.
C20_DisabledNeverRenderedBySdk ==
  sdk.updates = 0 =>
    \A i \in DOMAIN sdk.body :
       ~(sdk.body[i].config.enabled.has
           /\ sdk.body[i].config.enabled.v = FALSE)

\* ------------------------------------------------------------------------
\* Properties of the page load: empty configuration, counts, validated phone
\* ------------------------------------------------------------------------

\* the phone a deep link carries: the characters between phone= and the
\* first &
PhoneOfUrl(url) ==
  LET rest == SubSeq(UrlQuery(url), 7, Len(UrlQuery(url)))
      stop == CHOOSE i \in DOMAIN rest :
                /\ rest[i] = "&"
                /\ \A j \in 1..(i - 1) : rest[j] # "&"
  IN  SubSeq(rest, 1, stop - 1)

\* C24: when the authorization response has authorized true and no config
\* object, initWidget runs on the empty object: its only log is the
\* phone_number-required error, no element is created and none is appended.
C24_NoConfigAborts ==
  (response.has /\ response.v.authorized /\ ~response.v.config.has)
  => /\ LoggedSinceAuthorization
          = <<[level |-> "error",
               msg |-> "phone_number is required in configuration"]>>
     /\ created = 0
     /\ body = <<>>
     /\ ~bubble.exists
     /\ activations = 0

\* an authorized response without a config object was received
C24_Witness ==
  /\ response.has
  /\ response.v.authorized
  /\ ~response.v.config.has
  /\ pc = "settled"
  /\ Len(console) = 4

\* C25: in every state the analytics POSTs, the window.open calls and the
\* activations are equally many, and a request is issued only by the
\* bootstrap (the one authorize call) or by an activation (one POST each):
\* never by a hover event, a settled request or a key that does not activate.
C25_CountsAgree ==
  /\ Cardinality(AnalyticsRequests) = Len(opened)
  /\ Len(opened) = activations
  /\ Len(requests) = AuthorizeCount + Cardinality(AnalyticsRequests)
  /\ AuthorizeCount <= 1

C25_RequestOnlyByBootstrapOrActivation ==
  requests' # requests /\ Len(requests') # Len(requests) =>
    /\ Len(requests') = Len(requests) + 1
    /\ lastHover' = lastHover
    /\ \/ /\ pc = "load"
          /\ requests'[Len(requests')].kind = "authorize"
          /\ activations' = activations
       \/ /\ requests'[Len(requests')].kind = "analytics"
          /\ activations' = activations + 1
          /\ Len(opened') = Len(opened) + 1

C25_OnePostAndOneOpenPerActivation ==
  []C25_CountsAgree /\ [][C25_RequestOnlyByBootstrapOrActivation]_vars

\* the bubble was activated twice while the first POST was still pending,
\* after a hover
C25_Witness ==
  /\ activations = 2
  /\ Len(opened) = 2
  /\ Len(requests) = 3
  /\ requests[2].status = "pending"
  /\ requests[3].status = "pending"
  /\ requests[2].body = requests[3].body
  /\ lastHover # "none"

\* C28: every URL passed to window.open and every phone of an analytics body
\* is the phone_number of the configuration, and it is ten to fifteen
\* decimal digits; an activation happens only for such a configuration.
C28_ActivationsUseValidatedPhone ==
  /\ \A i \in DOMAIN opened :
       /\ SubSeq(UrlQuery(opened[i].url), 1, 6) = <<"p","h","o","n","e","=">>
       /\ PhoneOfUrl(opened[i].url) = ReceivedConfig.phone_number.v
       /\ TenToFifteenDigits(PhoneOfUrl(opened[i].url))
  /\ \A i \in AnalyticsRequests :
       TenToFifteenDigits(requests[i].body.event_data.phone)
  /\ activations > 0 =>
       /\ ReceivedConfig.phone_number.has
       /\ TenToFifteenDigits(ReceivedConfig.phone_number.v)

\* a bubble of a configuration with a fifteen-digit phone was activated
C28_Witness ==
  /\ activations >= 1
  /\ Len(opened) >= 1
  /\ Len(ReceivedConfig.phone_number.v) = 15
  /\ PhoneOfUrl(opened[1].url) = ReceivedConfig.phone_number.v

\* ------------------------------------------------------------------------
\* Properties of the lifecycle of the SDK class
\* ------------------------------------------------------------------------

\* the configuration has a phone_number of ten to fifteen digits
HasValidPhone(config) ==
  config.phone_number.has /\ TenToFifteenDigits(config.phone_number.v)

\* C21: onInit throws exactly when phone_number is absent or does not match
\* ^[0-9]{10,15}$, whatever the enabled flag is (the phone is checked first),
\* and a call of onInit creates no element, appends none and stores none.
C21_InitThrowsOnPhone ==
  (sdk.phase = "start" /\ sdk'.phase # "start") =>
    /\ sdk'.phase = (IF HasValidPhone(sdk.config) THEN "inited" ELSE "failed")
    /\ (sdk'.error # "") = ~HasValidPhone(sdk.config)
    /\ sdk'.created = 0
    /\ sdk'.body = <<>>
    /\ sdk'.bubble = 0

C21_InitValidatesPhoneFirst == [][C21_InitThrowsOnPhone]_vars

\* onInit threw for a disabled configuration with a malformed phone
C21_Witness ==
  /\ sdk.phase = "failed"
  /\ sdk.config.enabled = Some(FALSE)
  /\ sdk.config.phone_number.has
  /\ Len(sdk.config.phone_number.v) = 16
  /\ sdk.error = "Invalid phone_number format"
  /\ sdk.created = 0

\* C22: after onRender and any number of onConfigUpdate calls exactly one
\* bubble is in the document; it is the element this.bubble refers to, it is
\* the element created last, and it was rendered from the most recent
\* configuration.
C22_OneBubbleOfLatestConfig ==
  sdk.phase = "live" =>
    /\ Len(sdk.body) = 1
    /\ sdk.bubble # 0
    /\ sdk.body[1].id = sdk.bubble
    /\ sdk.body[1].id = sdk.created
    /\ sdk.created = sdk.updates + 1
    /\ sdk.body[1].config = sdk.config
    /\ sdk.body[1].style.backgroundColor
         = (IF sdk.config.bubble_color.has /\ sdk.config.bubble_color.v # ""
            THEN sdk.config.bubble_color.v ELSE "#25D366")

\* two configuration updates were delivered; the third element is the bubble
C22_Witness ==
  /\ sdk.phase = "live"
  /\ sdk.updates = 2
  /\ sdk.created = 3
  /\ Len(sdk.body) = 1
  /\ sdk.body[1].id = 3
  /\ sdk.config.bubble_color = Some("#FF0000")

\* C23: a call of onDestroy leaves this.bubble null and the referenced
\* element out of the document, creates nothing and raises no error; when
\* this.bubble is already null (a second call, or no bubble was rendered)
\* the document is left as it is.
C23_DestroyStep ==
  sdk'.stops # sdk.stops =>
    /\ sdk'.bubble = 0
    /\ \A i \in DOMAIN sdk'.body : sdk'.body[i].id # sdk.bubble
    /\ sdk.bubble = 0 => sdk'.body = sdk.body
    /\ sdk'.created = sdk.created
    /\ sdk'.error = sdk.error
    /\ sdk'.config = sdk.config

C23_Destroyed ==
  sdk.phase = "stopped" => sdk.bubble = 0 /\ sdk.body = <<>>

C23_DestroyIdempotent == []C23_Destroyed /\ [][C23_DestroyStep]_vars

\* onDestroy was called twice after a bubble was rendered
C23_Witness ==
  /\ sdk.phase = "stopped"
  /\ sdk.stops = 2
  /\ sdk.created >= 1
  /\ sdk.body = <<>>
  /\ sdk.error = ""

\* C27: every rendered bubble sets exactly one vertical side (top or bottom)
\* and exactly one horizontal side (left or right), whatever the position
\* value of its configuration is.
C27_AnchoredToCorner ==
  \A b \in RenderedBubbles :
     /\ Cardinality(DOMAIN b.style.sides \cap {"top", "bottom"}) = 1
     /\ Cardinality(DOMAIN b.style.sides \cap {"left", "right"}) = 1

\* C29: whenever a bubble of the SDK class is in the document, the
\* configuration it was rendered from has enabled not false and a
\* phone_number of ten to fifteen digits, also after onConfigUpdate.
C29_RenderedConfigIsValid ==
  \A i \in DOMAIN sdk.body :
     /\ ~(sdk.body[i].config.enabled.has
            /\ sdk.body[i].config.enabled.v = FALSE)
     /\ HasValidPhone(sdk.body[i].config)

\* ------------------------------------------------------------------------
\* Properties of activation in both variants
\* ------------------------------------------------------------------------

\* the event is a keydown of a key other than Enter and Space
OtherKeyDown(event) ==
  event.type = "keydown" /\ event.key \notin {"Enter", " "}

\* C26: a keydown on the bubble with a key other than Enter or Space has no
\* effect, in the minimal script and in the SDK class: preventDefault is not
\* called, no analytics POST or this.track call is issued, window.open is not
\* called, and nothing else of the page changes.
C26_OtherKeyState ==
  /\ OtherKeyDown(lastEvent) => ~lastEvent.defaultPrevented
  /\ OtherKeyDown(sdk.lastEvent) => ~sdk.lastEvent.defaultPrevented
  /\ Len(opened) = activations
  /\ Cardinality(AnalyticsRequests) = activations
  /\ Len(sdk.opened) = sdk.activations
  /\ Len(sdk.tracked) = sdk.activations

C26_OtherKeyStep ==
  /\ (lastEvent' # lastEvent /\ OtherKeyDown(lastEvent')) =>
       UNCHANGED <<script, pc, requests, response, console, widget, bubble,
                   body, created, opened, userAgent, isMobile, activations,
                   lastHover, sdk>>
  /\ (sdk'.lastEvent # sdk.lastEvent /\ OtherKeyDown(sdk'.lastEvent)) =>
       sdk' = [sdk EXCEPT !.lastEvent = sdk'.lastEvent]

C26_OtherKeysHaveNoEffect == []C26_OtherKeyState /\ [][C26_OtherKeyStep]_vars

\* Tab was pressed on both bubbles after each had been activated once
C26_Witness ==
  /\ lastEvent = [type |-> "keydown", key |-> "Tab", defaultPrevented |-> FALSE]
  /\ sdk.lastEvent
       = [type |-> "keydown", key |-> "Tab", defaultPrevented |-> FALSE]
  /\ activations = 1 /\ Len(opened) = 1
  /\ sdk.activations = 1 /\ Len(sdk.opened) = 1

\* the analytics POST number i of the minimal script as an event with its
\* payload, each field a defined value
PostedEvent(i) ==
  [event |-> requests[i].body.event_type,
   data  |-> [phone       |-> Some(requests[i].body.event_data.phone),
              has_message |-> requests[i].body.event_data.has_message,
              position    |-> Some(requests[i].body.event_data.position)]]

\* the URL uses the scheme of the WhatsApp application
MobileScheme(url) == SubSeq(url, 1, 8) = <<"w","h","a","t","s","a","p","p">>

\* C30: for the same configuration and the same device class, an activation
\* of the minimal script and an activation of the SDK class open the same
\* URL and report the same event 'whatsapp_clicked' with the same payload
\* {phone, has_message, position}, also when position or default_message is
\* unset.
C30_VariantsEquivalent ==
  \A i \in DOMAIN opened, j \in DOMAIN sdk.opened :
     MobileScheme(opened[i].url) = MobileScheme(sdk.opened[j].url) =>
       /\ opened[i] = sdk.opened[j]
       /\ \A k \in AnalyticsRequests :
            /\ PostedEvent(k).event = "whatsapp_clicked"
            /\ sdk.tracked[j].event = "whatsapp_clicked"
            /\ PostedEvent(k) = sdk.tracked[j]

\* the part of C30 that holds: same URL, same event name, same phone and
\* has_message
C30_SameUrlAndMessageFlag ==
  \A i \in DOMAIN opened, j \in DOMAIN sdk.opened :
     MobileScheme(opened[i].url) = MobileScheme(sdk.opened[j].url) =>
       /\ opened[i] = sdk.opened[j]
       /\ \A k \in AnalyticsRequests :
            /\ PostedEvent(k).event = sdk.tracked[j].event
            /\ PostedEvent(k).data.phone = sdk.tracked[j].data.phone
            /\ PostedEvent(k).data.has_message = sdk.tracked[j].data.has_message
            /\ sdk.config.position.has =>
                 PostedEvent(k).data.position = sdk.tracked[j].data.position

====
